---- MODULE Spec2Model ----
(***************************************************************************)
(* State-machine model of contracts/ArtStyleFHE.sol.                       *)
(*                                                                         *)
(* Every public function of the contract is one action.  A transaction     *)
(* that reverts leaves every variable as it was; what a call would return  *)
(* in a state is the value of its ...Result operator in that state.  The   *)
(* model follows the contract for MaxTransactions transactions that write  *)
(* storage or issue a decryption request.                                  *)
(*                                                                         *)
(* An euint32 handle is represented by the plaintext it encrypts:          *)
(* FHE.asEuint32(v) is v and FHE.decrypt(h) is h.  The decryption oracle   *)
(* behind FHE.requestDecryption hands out request ids 1, 2, 3, ... and     *)
(* remembers the callback selector each request was made with.             *)
(*                                                                         *)
(* The artwork detail view of frontend/web/src/App.tsx is a second state   *)
(* machine, FrontendSpec, over the React state of the component; the       *)
(* contract stands still while it runs, and it stands still in Spec.       *)
(***************************************************************************)
EXTENDS Integers, Sequences, FiniteSets, TLC

\* ------------------------------------------------------------------ bounds

\* Number of transactions that write storage or issue a decryption request.
MaxTransactions == 5

\* Number of artworks in the list the frontend shows.
MaxListed == 4

\* Number of browser sessions of the frontend sharing the record store, and of
\* the uploadArtwork, verifyArtwork and rejectArtwork calls they start.
MaxSessions == 2
MaxCalls == 3

\* ------------------------------------------------------- program constants

SIMILARITY_THRESHOLD == 7000
SIGNATURE_THRESHOLD == 8000

\* ------------------------------------------------------------ input domains

\* Keys of the mappings: every id or request id that MaxTransactions
\* transactions can allocate, 0 ("no record") and one beyond.
Keys == 0..(MaxTransactions + 1)
RequestIds == 1..(MaxTransactions + 1)

\* Opaque ciphertext handles for fields the contract never inspects.
ImageHashes == {11}
StyleVectors == {21}
SignatureVectors == {31}

\* Cleartexts are represented by the uint32[] that abi.decode yields.  The
\* indexing of analyzeStyle fixes the layout: styleVector arrays of length n/4
\* and the artist ids at n/2 and n/2+1, so two vectors of length k and two
\* artist ids occupy 4k words.
EncodeVectors(v1, v2, a1, a2) ==
    v1 \o v2 \o <<a1, a2>> \o [i \in 1..(2 * Len(v1) - 2) |-> 0]

\* Decrypted style vectors and artist ids an oracle may deliver.
ScoreInputs ==
    { [v1 |-> <<1, 2, 3>>, v2 |-> <<4, 5, 6>>, a1 |-> 1, a2 |-> 1],
      [v1 |-> <<2>>, v2 |-> <<3>>, a1 |-> 1, a2 |-> 2] }

ScorePayloads == { EncodeVectors(i.v1, i.v2, i.a1, i.a2) : i \in ScoreInputs }

\* <<similarity, signatureMatch>>
VerifyPayloads ==
    { <<8000, 9000>>, <<5000, 9000>>, <<7000, 9000>>, <<8000, 8000>> }

MalformedPayloads == { <<>>, <<1, 2, 3>> }

Cleartexts == ScorePayloads \cup VerifyPayloads \cup MalformedPayloads

\* A delivery is the cleartexts and whether FHE.checkSignatures accepts the
\* proof for them.  A delivery with a forged proof reverts whatever its
\* cleartexts are, and so does any delivery for a request id whose mapping
\* entries are zero: one delivery stands for each of these.
ForgedDeliveries == { [cleartexts |-> <<8000, 9000>>, proofOk |-> FALSE] }

Deliveries ==
    { [cleartexts |-> c, proofOk |-> TRUE] : c \in Cleartexts } \cup ForgedDeliveries

DeliveriesFor(known) == IF known THEN Deliveries ELSE ForgedDeliveries

\* decryptSimilarity drops what it decodes: one attested delivery stands for all.
DisclosureDeliveries ==
    { [cleartexts |-> <<0>>, proofOk |-> TRUE] } \cup ForgedDeliveries

Selectors == {"analyzeStyle", "checkSignature", "decryptSimilarity"}

\* -------------------------------------------------------------------- state

VARIABLES
    artworkCount,        \* uint256 public artworkCount
    artistCount,         \* uint256 public artistCount
    analysisCount,       \* uint256 public analysisCount
    artworks,            \* mapping(uint256 => Artwork)
    styleMatches,        \* mapping(uint256 => StyleMatch)
    artistProfiles,      \* mapping(uint256 => ArtistProfile)
    requestToArtworkId,  \* mapping(uint256 => uint256)
    requestToAnalysisId, \* mapping(uint256 => uint256)
    requestCounter,      \* oracle: number of decryption requests issued
    requestSelector,     \* oracle: request id -> callback selector ("" if none)
    fulfilled,           \* history: <<selector, request id>> of the accepted
                         \* callbacks that wrote storage
    txCount,             \* number of transactions that wrote storage or
                         \* issued a decryption request
    isConnected,         \* App.tsx: useAccount().isConnected
    selectedArtwork,     \* App.tsx: useState<ArtworkRecord | null>, Null or an id
    decryptedContent,    \* App.tsx: useState<string | null>, Null or a plaintext
    isDecrypting,        \* App.tsx: useState(false)
    decryptCall,         \* App.tsx: the handleDecrypt call awaiting, if any
    artworkKeys,         \* record store: the list under "artwork_keys"
    artworkRecords,      \* record store: status of `artwork_${id}`, "" if none
    listed,              \* App.tsx, per session: artworks (id -> status shown)
    uploading,           \* App.tsx, per session: useState(false)
    calls                \* the async calls started, each with where it awaits

storage == <<artworkCount, artistCount, analysisCount, artworks, styleMatches,
             artistProfiles, requestToArtworkId, requestToAnalysisId>>

oracle == <<requestCounter, requestSelector>>

frontend == <<isConnected, selectedArtwork, decryptedContent, isDecrypting, decryptCall>>

records == <<artworkKeys, artworkRecords, listed, uploading, calls>>

vars == <<artworkCount, artistCount, analysisCount, artworks, styleMatches,
          artistProfiles, requestToArtworkId, requestToAnalysisId,
          requestCounter, requestSelector, fulfilled, txCount, frontend, records>>

Sessions == 1..MaxSessions
CallIds == 1..MaxCalls

\* An upload names its artwork `${Date.now()}-${random}`: the id of the call.
ArtworkIds == CallIds

\* A call that has not been started.
IdleCall == [session |-> 0, op |-> "", pc |-> "idle", artworkId |-> 0, keys |-> <<>>]

\* null of the React state.
Null == 0

\* No handleDecrypt call is awaiting.
NoCall == [encryptedData |-> <<>>, pc |-> "idle"]

ZeroArtwork ==
    [encryptedImageHash |-> 0, encryptedStyleVector |-> 0,
     encryptedArtistId |-> 0, timestamp |-> 0]

ZeroStyleMatch ==
    [encryptedSimilarityScore |-> 0, encryptedReferenceId |-> 0, isVerified |-> FALSE]

ZeroArtistProfile == [encryptedSignatureVector |-> 0, artworkCount |-> 0]

Init ==
    /\ artworkCount = 0
    /\ artistCount = 0
    /\ analysisCount = 0
    /\ artworks = [i \in Keys |-> ZeroArtwork]
    /\ styleMatches = [i \in Keys |-> ZeroStyleMatch]
    /\ artistProfiles = [i \in Keys |-> ZeroArtistProfile]
    /\ requestToArtworkId = [r \in RequestIds |-> 0]
    /\ requestToAnalysisId = [r \in RequestIds |-> 0]
    /\ requestCounter = 0
    /\ requestSelector = [r \in RequestIds |-> ""]
    /\ fulfilled = {}
    /\ txCount = 0
    /\ isConnected = FALSE
    /\ selectedArtwork = Null
    /\ decryptedContent = Null
    /\ isDecrypting = FALSE
    /\ decryptCall = NoCall
    /\ artworkKeys = <<>>
    /\ artworkRecords = [a \in ArtworkIds |-> ""]
    /\ listed = [s \in Sessions |-> [a \in ArtworkIds |-> ""]]
    /\ uploading = [s \in Sessions |-> FALSE]
    /\ calls = [c \in CallIds |-> IdleCall]

\* A reverted transaction: storage and the oracle are as before.
Revert == UNCHANGED vars

\* A transaction that runs to its end and writes.
Commit ==
    /\ txCount < MaxTransactions
    /\ txCount' = txCount + 1
    /\ UNCHANGED <<frontend, records>>

\* FHE.requestDecryption(ciphertexts, selector): a fresh request id.
requestDecryption(selector) ==
    /\ requestCounter' = requestCounter + 1
    /\ requestSelector' = [requestSelector EXCEPT ![requestCounter + 1] = selector]

\* ------------------------------------------------------------ Record Store

\* registerArtist without artistCount++: the profile lands on the current id.
registerArtist_reusesId(signatureVector) ==
    /\ Commit
    /\ artistProfiles' = [artistProfiles EXCEPT ![artistCount] =
            [encryptedSignatureVector |-> signatureVector, artworkCount |-> 0]]
    /\ UNCHANGED <<artworkCount, artistCount, analysisCount, artworks, styleMatches,
                   requestToArtworkId, requestToAnalysisId, oracle, fulfilled>>

registerArtist(signatureVector) ==
    /\ Commit
    /\ artistCount' = artistCount + 1
    /\ artistProfiles' = [artistProfiles EXCEPT ![artistCount + 1] =
            [encryptedSignatureVector |-> signatureVector, artworkCount |-> 0]]
    /\ UNCHANGED <<artworkCount, analysisCount, artworks, styleMatches,
                   requestToArtworkId, requestToAnalysisId, oracle, fulfilled>>

\* The handles submitArtwork passes to FHE.decrypt inside the call, in order:
\* uint256(FHE.decrypt(artistId)) when artistId != FHE.asEuint32(0).  No other
\* function of the contract calls FHE.decrypt.
submitArtworkDecrypts(imageHash, styleVector, artistId) ==
    IF artistId # 0 THEN <<artistId>> ELSE <<>>

\* submitArtwork without artworkCount++: the record lands on the current id.
submitArtwork_overwritesLast(imageHash, styleVector, artistId) ==
    /\ Commit
    /\ artworks' = [artworks EXCEPT ![artworkCount] =
            [encryptedImageHash |-> imageHash, encryptedStyleVector |-> styleVector,
             encryptedArtistId |-> artistId, timestamp |-> 1]]
    /\ UNCHANGED <<artworkCount, artistCount, analysisCount, styleMatches, artistProfiles,
                   requestToArtworkId, requestToAnalysisId, oracle, fulfilled>>

\* artistId != FHE.asEuint32(0), and the profile indexed by FHE.decrypt(artistId).
\* block.timestamp is 1: every transaction of the model is in a block of that
\* time.
submitArtwork(imageHash, styleVector, artistId) ==
    /\ Commit
    /\ artworkCount' = artworkCount + 1
    /\ artworks' = [artworks EXCEPT ![artworkCount + 1] =
            [encryptedImageHash |-> imageHash, encryptedStyleVector |-> styleVector,
             encryptedArtistId |-> artistId, timestamp |-> 1]]
    /\ artistProfiles' =
            LET decrypted == submitArtworkDecrypts(imageHash, styleVector, artistId) IN
            IF decrypted # <<>>
            THEN [artistProfiles EXCEPT ![decrypted[1]].artworkCount = @ + 1]
            ELSE artistProfiles
    /\ UNCHANGED <<artistCount, analysisCount, styleMatches,
                   requestToArtworkId, requestToAnalysisId, oracle, fulfilled>>

\* ------------------------------------------------------- Analysis workflow

requestStyleAnalysisResult(artworkId, referenceId) ==
    IF ~(artworkId <= artworkCount) THEN "Invalid artwork"
    ELSE IF ~(referenceId <= artworkCount) THEN "Invalid reference"
    ELSE "ok"

requestStyleAnalysis(artworkId, referenceId) ==
    LET result == requestStyleAnalysisResult(artworkId, referenceId) IN
    IF result # "ok"
    THEN Revert
    ELSE /\ Commit
         /\ requestDecryption("analyzeStyle")
         /\ requestToArtworkId' =
                [requestToArtworkId EXCEPT ![requestCounter + 1] = artworkId]
         /\ requestToAnalysisId' =
                [requestToAnalysisId EXCEPT ![requestCounter + 1] = referenceId]
         /\ UNCHANGED <<artworkCount, artistCount, analysisCount, artworks,
                        styleMatches, artistProfiles, fulfilled>>

\* uint32(x) truncates to 32 bits.  referenceId passed require(referenceId <=
\* artworkCount), so it is below 2^31 (the largest integer of the checker) in
\* every state of the model and the truncation keeps its value.
ToUint32(x) == x

\* new uint32[](n): a zero-filled array.
NewUint32Array(n) == [i \in 1..n |-> 0]

\* The loop of analyzeStyle: similarity += styleVector1[i] * styleVector2[i].
RECURSIVE SumOfProducts(_, _, _)
SumOfProducts(v1, v2, i) ==
    IF i > Len(v1) THEN 0 ELSE v1[i] * v2[i] + SumOfProducts(v1, v2, i + 1)

\* styleVector1 and styleVector2 are allocated with length vectors.length/4
\* and never assigned from vectors before the loop reads them.
Similarity(vectors) ==
    LET styleVector1 == NewUint32Array(Len(vectors) \div 4)
        styleVector2 == NewUint32Array(Len(vectors) \div 4)
    IN  SumOfProducts(styleVector1, styleVector2, 1)

\* vectors[vectors.length/2] and vectors[vectors.length/2 + 1], 0-based.
ArtistId1(vectors) == vectors[Len(vectors) \div 2 + 1]
ArtistId2(vectors) == vectors[Len(vectors) \div 2 + 2]

SameArtist(vectors) ==
    ArtistId1(vectors) = ArtistId2(vectors) /\ ArtistId1(vectors) # 0

\* analyzeStyle without FHE.checkSignatures.
analyzeStyleResult_unattested(requestId, cleartexts, proofOk) ==
    IF ~(requestToArtworkId[requestId] # 0 /\ requestToAnalysisId[requestId] # 0)
    THEN "Invalid request"
    ELSE IF ~(Len(cleartexts) \div 2 + 1 < Len(cleartexts)) THEN "Panic(0x32)"
    ELSE "ok"

analyzeStyleResult(requestId, cleartexts, proofOk) ==
    IF ~(requestToArtworkId[requestId] # 0 /\ requestToAnalysisId[requestId] # 0)
    THEN "Invalid request"
    ELSE IF ~proofOk THEN "Invalid signatures"
    ELSE IF ~(Len(cleartexts) \div 2 + 1 < Len(cleartexts)) THEN "Panic(0x32)"
    ELSE "ok"

\* What analyzeStyle writes from analysisCount++ on, given the counter and the
\* map it finds: the new counter and the map with the new StyleMatch.
analyzeStyleWrites(count, matches, referenceId, cleartexts) ==
    [analysisCount |-> count + 1,
     styleMatches |-> [matches EXCEPT ![count + 1] =
        [encryptedSimilarityScore |-> Similarity(cleartexts),
         encryptedReferenceId |-> ToUint32(referenceId),
         isVerified |-> SameArtist(cleartexts)]]]

analyzeStyle(requestId, cleartexts, proofOk) ==
    LET result == analyzeStyleResult(requestId, cleartexts, proofOk) IN
    IF result # "ok"
    THEN Revert
    ELSE /\ Commit
         /\ LET written == analyzeStyleWrites(analysisCount, styleMatches,
                                              requestToAnalysisId[requestId], cleartexts)
            IN  /\ analysisCount' = written.analysisCount
                /\ styleMatches' = written.styleMatches
         /\ fulfilled' = fulfilled \cup {<<"analyzeStyle", requestId>>}
         /\ UNCHANGED <<artworkCount, artistCount, artworks, artistProfiles,
                        requestToArtworkId, requestToAnalysisId, oracle>>

verifyAuthenticityResult(analysisId, artistId) ==
    IF ~(analysisId <= analysisCount) THEN "Invalid analysis"
    ELSE IF ~(artistId <= artistCount) THEN "Invalid artist"
    ELSE "ok"

verifyAuthenticity(analysisId, artistId) ==
    LET result == verifyAuthenticityResult(analysisId, artistId) IN
    IF result # "ok"
    THEN Revert
    ELSE /\ Commit
         /\ requestDecryption("checkSignature")
         /\ requestToAnalysisId' =
                [requestToAnalysisId EXCEPT ![requestCounter + 1] = analysisId]
         /\ UNCHANGED <<artworkCount, artistCount, analysisCount, artworks,
                        styleMatches, artistProfiles, requestToArtworkId, fulfilled>>

\* The comparisons of the verdict written with >= for >.
isAuthentic_inclusive(similarityScore, signatureMatch) ==
    similarityScore >= SIMILARITY_THRESHOLD /\ signatureMatch >= SIGNATURE_THRESHOLD

isAuthentic(similarityScore, signatureMatch) ==
    similarityScore > SIMILARITY_THRESHOLD /\ signatureMatch > SIGNATURE_THRESHOLD

\* checkSignature without require(analysisId != 0).
checkSignatureResult_noLookup(requestId, cleartexts, proofOk) ==
    IF ~proofOk THEN "Invalid signatures"
    ELSE IF ~(1 < Len(cleartexts)) THEN "Panic(0x32)"
    ELSE "ok"

checkSignatureResult(requestId, cleartexts, proofOk) ==
    IF ~(requestToAnalysisId[requestId] # 0) THEN "Invalid request"
    ELSE IF ~proofOk THEN "Invalid signatures"
    ELSE IF ~(1 < Len(cleartexts)) THEN "Panic(0x32)"
    ELSE "ok"

checkSignature(requestId, cleartexts, proofOk) ==
    LET result == checkSignatureResult(requestId, cleartexts, proofOk)
        analysisId == requestToAnalysisId[requestId]
    IN
    IF result # "ok"
    THEN Revert
    ELSE /\ Commit
         /\ styleMatches' = [styleMatches EXCEPT ![analysisId].isVerified =
                isAuthentic(cleartexts[1], cleartexts[2])]
         /\ fulfilled' = fulfilled \cup {<<"checkSignature", requestId>>}
         /\ UNCHANGED <<artworkCount, artistCount, analysisCount, artworks,
                        artistProfiles, requestToArtworkId, requestToAnalysisId, oracle>>

\* requestAnalysisProof that also clears the verdict it tested.
requestAnalysisProof_clearsVerified(analysisId) ==
    IF ~(analysisId <= analysisCount) \/ ~styleMatches[analysisId].isVerified
    THEN Revert
    ELSE /\ Commit
         /\ requestDecryption("decryptSimilarity")
         /\ requestToAnalysisId' =
                [requestToAnalysisId EXCEPT ![requestCounter + 1] = analysisId]
         /\ styleMatches' = [styleMatches EXCEPT ![analysisId].isVerified = FALSE]
         /\ UNCHANGED <<artworkCount, artistCount, analysisCount, artworks,
                        artistProfiles, requestToArtworkId, fulfilled>>

\* requestAnalysisProof that issues its request before testing isVerified and
\* returns instead of reverting.
requestAnalysisProof_returnsEarly(analysisId) ==
    IF ~(analysisId <= analysisCount)
    THEN Revert
    ELSE /\ Commit
         /\ requestDecryption("decryptSimilarity")
         /\ requestToAnalysisId' =
                [requestToAnalysisId EXCEPT ![requestCounter + 1] = analysisId]
         /\ UNCHANGED <<artworkCount, artistCount, analysisCount, artworks,
                        styleMatches, artistProfiles, requestToArtworkId, fulfilled>>

requestAnalysisProofResult(analysisId) ==
    IF ~(analysisId <= analysisCount) THEN "Invalid analysis"
    ELSE IF ~styleMatches[analysisId].isVerified THEN "Not verified"
    ELSE "ok"

requestAnalysisProof(analysisId) ==
    LET result == requestAnalysisProofResult(analysisId) IN
    IF result # "ok"
    THEN Revert
    ELSE /\ Commit
         /\ requestDecryption("decryptSimilarity")
         /\ requestToAnalysisId' =
                [requestToAnalysisId EXCEPT ![requestCounter + 1] = analysisId]
         /\ UNCHANGED <<artworkCount, artistCount, analysisCount, artworks,
                        styleMatches, artistProfiles, requestToArtworkId, fulfilled>>

\* abi.decode(cleartexts, (uint32)) reads the first word of the encoding; the
\* cleartexts of this model are encodings of uint32[], whose first word is the
\* offset 0x20.  The decoded value is not used.
decryptSimilarityResult(requestId, cleartexts, proofOk) ==
    IF ~(requestToAnalysisId[requestId] # 0) THEN "Invalid request"
    ELSE IF ~proofOk THEN "Invalid signatures"
    ELSE "ok"

\* Nothing is written: the decoded similarity is a local that is dropped.
decryptSimilarity(requestId, cleartexts, proofOk) ==
    LET result == decryptSimilarityResult(requestId, cleartexts, proofOk) IN
    IF result # "ok"
    THEN Revert
    ELSE UNCHANGED vars

\* The view function getVerificationStatus.
getVerificationStatus(analysisId) == styleMatches[analysisId].isVerified

\* ------------------------------------------------------------------- events
\*
\* The events a call made in the current state emits, in order: none when
\* the call reverts.

Event(name, id) == [name |-> name, id |-> id]

registerArtistEvents(signatureVector) == <<>>

\* emit ArtworkSubmitted(artworkCount), after artworkCount++.
submitArtworkEvents(imageHash, styleVector, artistId) ==
    <<Event("ArtworkSubmitted", artworkCount + 1)>>

requestStyleAnalysisEvents(artworkId, referenceId) ==
    IF requestStyleAnalysisResult(artworkId, referenceId) # "ok" THEN <<>>
    ELSE <<Event("AnalysisRequested", artworkId)>>

\* emit StyleMatchFound(analysisCount), after analysisCount++.
analyzeStyleEvents(requestId, cleartexts, proofOk) ==
    IF analyzeStyleResult(requestId, cleartexts, proofOk) # "ok" THEN <<>>
    ELSE <<Event("StyleMatchFound", analysisCount + 1)>>

verifyAuthenticityEvents(analysisId, artistId) == <<>>

checkSignatureEvents(requestId, cleartexts, proofOk) ==
    IF checkSignatureResult(requestId, cleartexts, proofOk) # "ok" THEN <<>>
    ELSE <<Event("VerificationCompleted", requestToAnalysisId[requestId])>>

requestAnalysisProofEvents(analysisId) == <<>>

decryptSimilarityEvents(requestId, cleartexts, proofOk) == <<>>

\* ------------------------------------------------------------ specification

\* A caller may pass any id: the existing ones, 0 and one beyond; the artist
\* reference of an artwork is any uint32, here up to one beyond the artists.
\* A callback may carry any request id issued so far, or one never issued.
Next ==
    \/ \E s \in SignatureVectors : registerArtist(s)
    \/ \E h \in ImageHashes, s \in StyleVectors, a \in 0..(artistCount + 1) :
            submitArtwork(h, s, a)
    \/ \E a \in 0..(artworkCount + 1), r \in 0..(artworkCount + 1) :
            requestStyleAnalysis(a, r)
    \/ \E r \in 1..(requestCounter + 1) :
         \E d \in DeliveriesFor(requestToArtworkId[r] # 0 /\ requestToAnalysisId[r] # 0) :
            analyzeStyle(r, d.cleartexts, d.proofOk)
    \/ \E a \in 0..(analysisCount + 1), r \in 0..(artistCount + 1) :
            verifyAuthenticity(a, r)
    \/ \E r \in 1..(requestCounter + 1) :
         \E d \in DeliveriesFor(requestToAnalysisId[r] # 0) :
            checkSignature(r, d.cleartexts, d.proofOk)
    \/ \E a \in 0..(analysisCount + 1) : requestAnalysisProof(a)
    \/ \E r \in 1..(requestCounter + 1), d \in DisclosureDeliveries :
            decryptSimilarity(r, d.cleartexts, d.proofOk)

Spec == Init /\ [][Next]_vars

\* ----------------------------------------------------------------- frontend
\*
\* The artwork detail view of App.tsx.  An artwork of the list is its index;
\* its plaintext is the index and its encryptedData is FHEEncryption of it.
\* An await is a point where other handlers run: decryptCall holds the
\* handleDecrypt call that is awaiting, with the place it resumes at.

ListedArtworks == 1..MaxListed

\* `FHE-${btoa(data)}`
FHEEncryption(data) == <<"FHE-", data>>

\* encryptedData.startsWith('FHE-') ? atob(encryptedData.substring(4)) : encryptedData
FHEDecryption(encryptedData) ==
    IF Len(encryptedData) >= 1 /\ encryptedData[1] = "FHE-"
    THEN encryptedData[2]
    ELSE encryptedData

EncryptedData(artwork) == FHEEncryption(artwork)

contract == <<storage, oracle, fulfilled, txCount>>

\* The wallet connects or disconnects.
ToggleConnection ==
    /\ isConnected' = ~isConnected
    /\ UNCHANGED <<selectedArtwork, decryptedContent, isDecrypting, decryptCall, contract, records>>

\* onClick of an artwork card or its Details button; the modal overlay covers
\* the list while an artwork is selected.
SelectArtwork(artwork) ==
    /\ selectedArtwork = Null
    /\ selectedArtwork' = artwork
    /\ UNCHANGED <<isConnected, decryptedContent, isDecrypting, decryptCall, contract, records>>

\* onClose of ArtworkDetailModal; its buttons are never disabled.
CloseModal ==
    /\ selectedArtwork # Null
    /\ selectedArtwork' = Null
    /\ decryptedContent' = Null
    /\ UNCHANGED <<isConnected, isDecrypting, decryptCall, contract, records>>

\* handleDecrypt up to its await; the button is disabled while isDecrypting.
\* decryptWithSignature returns null at once when no wallet is connected.
handleDecrypt ==
    /\ selectedArtwork # Null
    /\ ~isDecrypting
    /\ IF decryptedContent # Null
       THEN /\ decryptedContent' = Null
            /\ UNCHANGED <<isDecrypting, decryptCall>>
       ELSE IF ~isConnected
       THEN UNCHANGED <<decryptedContent, isDecrypting, decryptCall>>
       ELSE /\ isDecrypting' = TRUE
            /\ decryptCall' = [encryptedData |-> EncryptedData(selectedArtwork),
                               pc |-> "signMessageAsync"]
            /\ UNCHANGED decryptedContent
    /\ UNCHANGED <<isConnected, selectedArtwork, contract, records>>

\* await signMessageAsync({ message }) resolves; the 1500 ms timer starts.
SignatureResolved ==
    /\ decryptCall.pc = "signMessageAsync"
    /\ decryptCall' = [decryptCall EXCEPT !.pc = "setTimeout"]
    /\ UNCHANGED <<isConnected, selectedArtwork, decryptedContent, isDecrypting, contract, records>>

\* signMessageAsync rejects: catch returns null, finally clears isDecrypting,
\* and handleDecrypt sets nothing.
SignatureRejected ==
    /\ decryptCall.pc = "signMessageAsync"
    /\ decryptCall' = NoCall
    /\ isDecrypting' = FALSE
    /\ UNCHANGED <<isConnected, selectedArtwork, decryptedContent, contract, records>>

\* The timer fires: decryptWithSignature returns FHEDecryption(encryptedData),
\* finally clears isDecrypting, and handleDecrypt resumes with
\* if (decrypted) setDecryptedContent(decrypted).
DecryptReturned ==
    /\ decryptCall.pc = "setTimeout"
    /\ LET decrypted == FHEDecryption(decryptCall.encryptedData) IN
          decryptedContent' = IF decrypted # Null THEN decrypted ELSE decryptedContent
    /\ decryptCall' = NoCall
    /\ isDecrypting' = FALSE
    /\ UNCHANGED <<isConnected, selectedArtwork, contract, records>>

FrontendNext ==
    \/ ToggleConnection
    \/ \E a \in ListedArtworks : SelectArtwork(a)
    \/ CloseModal
    \/ handleDecrypt
    \/ SignatureResolved
    \/ SignatureRejected
    \/ DecryptReturned

FrontendSpec == Init /\ [][FrontendNext]_vars

\* ------------------------------------------------------------- record store
\*
\* uploadArtwork, verifyArtwork, rejectArtwork and loadArtworks of App.tsx, run
\* by sessions with a connected wallet against the key-value store behind
\* contract.getData / contract.setData.  Each getData and setData is one step;
\* between two of them the call awaits and other calls run.

\* Calls are started in the order of their ids.
Started == Cardinality({c \in CallIds : calls[c].pc # "idle"})

\* loadArtworks: the records of the ids in artwork_keys that have data, with
\* status (artworkData.status || "pending").
LoadedList ==
    [a \in ArtworkIds |->
        IF (\E i \in 1..Len(artworkKeys) : artworkKeys[i] = a) /\ artworkRecords[a] # ""
        THEN artworkRecords[a]
        ELSE ""]

\* Refresh button, or the load on mount.
loadArtworks(s) ==
    /\ listed' = [listed EXCEPT ![s] = LoadedList]
    /\ UNCHANGED <<artworkKeys, artworkRecords, uploading, calls, contract, frontend>>

\* uploadArtwork up to its first setData; the submit button is disabled while
\* the session is uploading.
uploadArtwork(s) ==
    LET c == Started + 1 IN
    /\ c \in CallIds
    /\ ~uploading[s]
    /\ uploading' = [uploading EXCEPT ![s] = TRUE]
    /\ calls' = [calls EXCEPT ![c] =
            [session |-> s, op |-> "uploadArtwork", pc |-> "setRecord",
             artworkId |-> c, keys |-> <<>>]]
    /\ UNCHANGED <<artworkKeys, artworkRecords, listed, contract, frontend>>

\* await contract.setData(`artwork_${artworkId}`, ...) with status "pending".
UploadSetRecord(c) ==
    /\ calls[c].op = "uploadArtwork" /\ calls[c].pc = "setRecord"
    /\ artworkRecords' = [artworkRecords EXCEPT ![calls[c].artworkId] = "pending"]
    /\ calls' = [calls EXCEPT ![c].pc = "getKeys"]
    /\ UNCHANGED <<artworkKeys, listed, uploading, contract, frontend>>

\* const keysBytes = await contract.getData("artwork_keys"); keys = JSON.parse(...)
UploadGetKeys(c) ==
    /\ calls[c].op = "uploadArtwork" /\ calls[c].pc = "getKeys"
    /\ calls' = [calls EXCEPT ![c].pc = "setKeys", ![c].keys = artworkKeys]
    /\ UNCHANGED <<artworkKeys, artworkRecords, listed, uploading, contract, frontend>>

\* keys.push(artworkId); await contract.setData("artwork_keys", ...)
UploadSetKeys(c) ==
    /\ calls[c].op = "uploadArtwork" /\ calls[c].pc = "setKeys"
    /\ artworkKeys' = Append(calls[c].keys, calls[c].artworkId)
    /\ calls' = [calls EXCEPT ![c].pc = "loadArtworks", ![c].keys = <<>>]
    /\ UNCHANGED <<artworkRecords, listed, uploading, contract, frontend>>

\* verifyArtwork up to getData; its button is rendered for an artwork the
\* session's list shows as pending.
verifyArtwork(s, a) ==
    LET c == Started + 1 IN
    /\ c \in CallIds
    /\ listed[s][a] = "pending"
    /\ calls' = [calls EXCEPT ![c] =
            [session |-> s, op |-> "verifyArtwork", pc |-> "getRecord",
             artworkId |-> a, keys |-> <<>>]]
    /\ UNCHANGED <<artworkKeys, artworkRecords, listed, uploading, contract, frontend>>

\* rejectArtwork up to getData, rendered under the same condition.
rejectArtwork(s, a) ==
    LET c == Started + 1 IN
    /\ c \in CallIds
    /\ listed[s][a] = "pending"
    /\ calls' = [calls EXCEPT ![c] =
            [session |-> s, op |-> "rejectArtwork", pc |-> "getRecord",
             artworkId |-> a, keys |-> <<>>]]
    /\ UNCHANGED <<artworkKeys, artworkRecords, listed, uploading, contract, frontend>>

\* const artworkBytes = await contract.getData(`artwork_${artworkId}`); the
\* status read is not looked at.
DecisionGetRecord(c) ==
    /\ calls[c].op \in {"verifyArtwork", "rejectArtwork"} /\ calls[c].pc = "getRecord"
    /\ calls' = [calls EXCEPT ![c].pc =
            IF artworkRecords[calls[c].artworkId] = "" THEN "failed" ELSE "setRecord"]
    /\ UNCHANGED <<artworkKeys, artworkRecords, listed, uploading, contract, frontend>>

\* The status verifyArtwork / rejectArtwork writes: { ...artworkData, status }.
DecidedStatus(op) == IF op = "verifyArtwork" THEN "verified" ELSE "rejected"

\* await contract.setData(`artwork_${artworkId}`, updatedArtwork)
DecisionSetRecord(c) ==
    /\ calls[c].op \in {"verifyArtwork", "rejectArtwork"} /\ calls[c].pc = "setRecord"
    /\ artworkRecords' =
            [artworkRecords EXCEPT ![calls[c].artworkId] = DecidedStatus(calls[c].op)]
    /\ calls' = [calls EXCEPT ![c].pc = "loadArtworks"]
    /\ UNCHANGED <<artworkKeys, listed, uploading, contract, frontend>>

\* await loadArtworks() at the end of a call; finally { setUploading(false) }.
CallLoadsArtworks(c) ==
    /\ calls[c].pc = "loadArtworks"
    /\ listed' = [listed EXCEPT ![calls[c].session] = LoadedList]
    /\ uploading' = IF calls[c].op = "uploadArtwork"
                    THEN [uploading EXCEPT ![calls[c].session] = FALSE]
                    ELSE uploading
    /\ calls' = [calls EXCEPT ![c].pc = "done"]
    /\ UNCHANGED <<artworkKeys, artworkRecords, contract, frontend>>

\* A getData or setData the call awaits throws (the transaction is rejected):
\* catch, and finally { setUploading(false) }.
CallThrows(c) ==
    /\ calls[c].pc \in {"setRecord", "getKeys", "setKeys", "getRecord"}
    /\ uploading' = IF calls[c].op = "uploadArtwork"
                    THEN [uploading EXCEPT ![calls[c].session] = FALSE]
                    ELSE uploading
    /\ calls' = [calls EXCEPT ![c].pc = "failed", ![c].keys = <<>>]
    /\ UNCHANGED <<artworkKeys, artworkRecords, listed, contract, frontend>>

RecordsNext ==
    \/ \E s \in Sessions : loadArtworks(s)
    \/ \E s \in Sessions : uploadArtwork(s)
    \/ \E c \in CallIds : UploadSetRecord(c)
    \/ \E c \in CallIds : UploadGetKeys(c)
    \/ \E c \in CallIds : UploadSetKeys(c)
    \/ \E s \in Sessions, a \in ArtworkIds : verifyArtwork(s, a)
    \/ \E s \in Sessions, a \in ArtworkIds : rejectArtwork(s, a)
    \/ \E c \in CallIds : DecisionGetRecord(c)
    \/ \E c \in CallIds : DecisionSetRecord(c)
    \/ \E c \in CallIds : CallLoadsArtworks(c)
    \/ \E c \in CallIds : CallThrows(c)

RecordsSpec == Init /\ [][RecordsNext]_vars

\* ------------------------------------------------------ workflow vocabulary
\*
\* The contract keeps no workflow state and no consumed flag.  The states of
\* the design are read off storage and the history of accepted callbacks.  The
\* contract reverts with reason strings, not typed errors: "fails with E" is
\* read as "the call reverts".

Issued == 1..requestCounter

\* The request was accepted by the callback it was issued for.
Consumed(t) == <<requestSelector[t], t>> \in fulfilled

\* An accepted checkSignature wrote the verdict of analysis a.
VerdictDelivered(a) ==
    \E t \in Issued : <<"checkSignature", t>> \in fulfilled /\ requestToAnalysisId[t] = a

VerifyPending(a) ==
    \E t \in Issued : /\ requestSelector[t] = "checkSignature"
                       /\ requestToAnalysisId[t] = a
                       /\ ~Consumed(t)

ScorePending(artworkId, referenceId) ==
    \E t \in Issued : /\ requestSelector[t] = "analyzeStyle"
                       /\ requestToArtworkId[t] = artworkId
                       /\ requestToAnalysisId[t] = referenceId
                       /\ ~Consumed(t)

WorkflowState(a) ==
    IF a \notin 1..analysisCount THEN "None"
    ELSE IF VerdictDelivered(a)
         THEN (IF styleMatches[a].isVerified THEN "Verified" ELSE "Rejected")
    ELSE IF VerifyPending(a) THEN "VerificationRequested"
    ELSE "Scored"

\* The step is a transaction that wrote (not a revert).
Wrote == txCount' = txCount + 1

\* The step is the callback accepting the delivery (t, c, valid proof).
AcceptedAnalyzeStyle(t, c) ==
    /\ Wrote
    /\ analyzeStyleResult(t, c, TRUE) = "ok"
    /\ analyzeStyle(t, c, TRUE)

AcceptedCheckSignature(t, c) ==
    /\ Wrote
    /\ checkSignatureResult(t, c, TRUE) = "ok"
    /\ checkSignature(t, c, TRUE)

\* ------------------------------------------------------------------ claims

\* C1: once a callback carrying a request token has been accepted, the same
\* (token, payload, attestation) delivered again to the same callback is
\* rejected.
C1_ReplayRejected ==
    [][ \A t \in Issued, c \in Cleartexts :
          /\ (requestSelector[t] = "analyzeStyle" /\ AcceptedAnalyzeStyle(t, c))
                => (analyzeStyleResult(t, c, TRUE))' # "ok"
          /\ (requestSelector[t] = "checkSignature" /\ AcceptedCheckSignature(t, c))
                => (checkSignatureResult(t, c, TRUE))' # "ok"
      ]_vars

\* C2: a callback is accepted only for a token that was issued for that
\* callback; a token delivered to a callback of another kind is rejected.
C2_KindChecked ==
    /\ \A f \in fulfilled : requestSelector[f[2]] = f[1]
    /\ \A t \in Issued, c \in Cleartexts :
          /\ requestSelector[t] # "analyzeStyle"
                => analyzeStyleResult(t, c, TRUE) # "ok"
          /\ requestSelector[t] # "checkSignature"
                => checkSignatureResult(t, c, TRUE) # "ok"
          /\ requestSelector[t] # "decryptSimilarity"
                => decryptSimilarityResult(t, c, TRUE) # "ok"

\* C3: verifyAuthenticity succeeds only for an Analysis that is Scored.
C3_VerifyOnlyWhenScored ==
    [][ \A a \in Keys, r \in Keys :
          (Wrote /\ verifyAuthenticityResult(a, r) = "ok" /\ verifyAuthenticity(a, r))
              => WorkflowState(a) = "Scored"
      ]_vars

\* C4: once an Analysis is Verified or Rejected, no operation changes its
\* verdict or workflow state.
C4_TerminalIsFinal ==
    [][ \A a \in 1..analysisCount :
          WorkflowState(a) \in {"Verified", "Rejected"}
              => /\ WorkflowState(a)' = WorkflowState(a)
                 /\ styleMatches'[a].isVerified = styleMatches[a].isVerified
      ]_vars

\* C5: at most one unconsumed pending request per (Analysis, request kind).
\* The requests the contract keys by an Analysis id are those of
\* verifyAuthenticity: no two of them are unconsumed for the same Analysis.
C5_OnePendingPerAnalysis ==
    \A t1 \in Issued, t2 \in Issued :
        ( /\ t1 # t2
          /\ requestSelector[t1] = "checkSignature"
          /\ requestSelector[t2] = "checkSignature"
          /\ ~Consumed(t1) /\ ~Consumed(t2)
          /\ requestToAnalysisId[t1] \in 1..analysisCount )
        => requestToAnalysisId[t1] # requestToAnalysisId[t2]

\* C6: requestStyleAnalysis for a pair of artworks whose earlier request has
\* not had its callback accepted fails and issues no oracle request.
C6_SecondRequestConflicts ==
    [][ \A a \in 1..artworkCount, r \in 1..artworkCount :
          ScorePending(a, r)
              => ~( /\ Wrote
                    /\ requestStyleAnalysisResult(a, r) = "ok"
                    /\ requestStyleAnalysis(a, r) )
      ]_vars

\* C7: requestAnalysisProof is permitted only for an Analysis that reached
\* Verified through an accepted checkSignature callback.
C7_ProofOnlyWhenVerified ==
    [][ \A a \in Keys :
          (Wrote /\ requestAnalysisProofResult(a) = "ok" /\ requestAnalysisProof(a))
              => WorkflowState(a) = "Verified"
      ]_vars

\* C8: the score stored by an accepted analyzeStyle callback is the sum of
\* the elementwise products of the two decoded vectors (32 for [1,2,3] and
\* [4,5,6]), and the Analysis becomes Scored.
C8_ScoreIsDotProduct ==
    [][ \A t \in Issued, i \in ScoreInputs :
          AcceptedAnalyzeStyle(t, EncodeVectors(i.v1, i.v2, i.a1, i.a2))
              => /\ styleMatches'[analysisCount + 1].encryptedSimilarityScore
                        = SumOfProducts(i.v1, i.v2, 1)
                 /\ (WorkflowState(analysisCount + 1))' = "Scored"
      ]_vars

\* C9: an accepted checkSignature callback sets the verdict to authentic iff
\* similarity > 7000 and signatureMatch > 8000; the Analysis is then Verified
\* if authentic and Rejected otherwise.
C9_VerdictRule ==
    [][ \A t \in Issued, c \in Cleartexts :
          AcceptedCheckSignature(t, c)
              => LET a == requestToAnalysisId[t]
                     authentic == c[1] > 7000 /\ c[2] > 8000
                 IN  /\ styleMatches'[a].isVerified = authentic
                     /\ a \in 1..analysisCount
                           => (WorkflowState(a))' =
                                 IF authentic THEN "Verified" ELSE "Rejected"
      ]_vars

\* An Analysis was verified through its own verifyAuthenticity request.
C9_Witness ==
    \E t \in Issued :
        /\ requestSelector[t] = "checkSignature"
        /\ Consumed(t)
        /\ WorkflowState(requestToAnalysisId[t]) = "Verified"

\* The records written so far sit exactly on the ids 1..count.
IdsAssigned ==
    \A i \in Keys :
        /\ artworks[i] # ZeroArtwork <=> i \in 1..artworkCount
        /\ artistProfiles[i].encryptedSignatureVector # 0 <=> i \in 1..artistCount

CountersStep ==
    /\ artistCount' \in {artistCount, artistCount + 1}
    /\ artistCount' = artistCount + 1
          <=> \E s \in SignatureVectors : registerArtist(s)
    /\ artworkCount' \in {artworkCount, artworkCount + 1}
    /\ artworkCount' = artworkCount + 1
          <=> \E h \in ImageHashes, s \in StyleVectors, a \in Keys : submitArtwork(h, s, a)

\* C10: artist ids and artwork ids are assigned 1, 2, 3, ... and never
\* reused; artistCount and artworkCount never decrease, and only
\* registerArtist and submitArtwork change them.
C10_IdsIncrease == []IdsAssigned /\ [][CountersStep]_vars

\* Two artists and two artworks were registered.
C10_Witness == artistCount = 2 /\ artworkCount = 2

\* C11: requestStyleAnalysis fails, issuing no oracle request, whenever either
\* id is 0 or greater than artworkCount.
C11_InvalidReferenceRejected ==
    [][ \A a \in Keys, r \in Keys :
          (a \notin 1..artworkCount \/ r \notin 1..artworkCount)
              => ~( /\ Wrote
                    /\ requestStyleAnalysisResult(a, r) = "ok"
                    /\ requestStyleAnalysis(a, r) )
      ]_vars

\* Request ids the oracle has not handed out.
NeverIssued == RequestIds \ Issued

UnknownTokenReverts ==
    \A t \in NeverIssued, d \in Deliveries :
        /\ analyzeStyleResult(t, d.cleartexts, d.proofOk) = "Invalid request"
        /\ checkSignatureResult(t, d.cleartexts, d.proofOk) = "Invalid request"
        /\ decryptSimilarityResult(t, d.cleartexts, d.proofOk) = "Invalid request"

\* A step that changes storage or the oracle is not such a callback.
UnknownTokenWritesNothing ==
    \/ UNCHANGED <<storage, oracle>>
    \/ \A t \in NeverIssued, d \in Deliveries :
           /\ ~analyzeStyle(t, d.cleartexts, d.proofOk)
           /\ ~checkSignature(t, d.cleartexts, d.proofOk)
           /\ ~decryptSimilarity(t, d.cleartexts, d.proofOk)

\* C12: a callback delivered with a request id that no oracle request
\* returned reverts ("Invalid request") and changes no analysis, counter or
\* correlation entry.
C12_UnknownTokenRejected == []UnknownTokenReverts /\ [][UnknownTokenWritesNothing]_vars

\* Requests of two kinds were issued and an analysis exists; the next request
\* id was never issued.
C12_Witness ==
    /\ analysisCount >= 1
    /\ \E t1 \in Issued, t2 \in Issued :
          requestSelector[t1] = "analyzeStyle" /\ requestSelector[t2] = "checkSignature"
    /\ \E t \in NeverIssued :
          checkSignatureResult(t, <<8000, 9000>>, TRUE) = "Invalid request"

\* A delivery whose proof FHE.checkSignatures rejects reverts in every callback.
ForgedProofReverts ==
    \A t \in Issued, c \in Cleartexts :
        /\ analyzeStyleResult(t, c, FALSE) # "ok"
        /\ checkSignatureResult(t, c, FALSE) # "ok"
        /\ decryptSimilarityResult(t, c, FALSE) # "ok"

\* A step that changes storage or the oracle is not such a delivery.
ForgedProofWritesNothing ==
    \/ UNCHANGED <<storage, oracle, fulfilled>>
    \/ \A t \in Issued, c \in Cleartexts :
           /\ ~analyzeStyle(t, c, FALSE)
           /\ ~checkSignature(t, c, FALSE)
           /\ ~decryptSimilarity(t, c, FALSE)

\* Whatever was delivered with a forged proof before, a request whose
\* callback has not been accepted still accepts a well-formed attested
\* delivery.
ValidDeliveryStillAccepted ==
    \A t \in Issued :
        ~Consumed(t) =>
            /\ (requestSelector[t] = "analyzeStyle"
                  /\ requestToArtworkId[t] # 0 /\ requestToAnalysisId[t] # 0)
                  => \A c \in ScorePayloads : analyzeStyleResult(t, c, TRUE) = "ok"
            /\ (requestSelector[t] = "checkSignature" /\ requestToAnalysisId[t] # 0)
                  => \A c \in VerifyPayloads : checkSignatureResult(t, c, TRUE) = "ok"

\* C13: a callback whose proof does not authenticate (request id, cleartexts)
\* reverts and writes nothing, the proof being checked before every write; the
\* request stays unconsumed and a later valid delivery is still accepted.
C13_ForgedProofRejected ==
    /\ [](ForgedProofReverts /\ ValidDeliveryStillAccepted)
    /\ [][ForgedProofWritesNothing]_vars

\* An unconsumed verification request for an existing analysis: the forged
\* delivery reverts on the proof, the attested one is accepted.
C13_Witness ==
    \E t \in Issued :
        /\ requestSelector[t] = "checkSignature"
        /\ requestToAnalysisId[t] \in 1..analysisCount
        /\ ~Consumed(t)
        /\ checkSignatureResult(t, <<8000, 9000>>, FALSE) = "Invalid signatures"
        /\ checkSignatureResult(t, <<8000, 9000>>, TRUE) = "ok"

\* C14: an analyzeStyle callback whose decoded array has length zero or odd
\* length is rejected: no score is stored, no analysis is created and
\* analysisCount is unchanged.
C14_OddLengthRejected ==
    [][ \A t \in Issued, c \in Cleartexts :
          (Len(c) = 0 \/ Len(c) % 2 = 1)
              => /\ ~AcceptedAnalyzeStyle(t, c)
                 /\ analyzeStyle(t, c, TRUE)
                       => UNCHANGED <<analysisCount, styleMatches>>
      ]_vars

\* C15: a successful requestStyleAnalysis creates the analysis: on return
\* analysisCount has grown by one and the new id holds no score and no
\* verdict; the accepted analyzeStyle callback for that request then writes
\* that analysis and allocates no new id.
C15_AnalysisCreatedAtRequest ==
    [][ /\ \A a \in 1..artworkCount, r \in 1..artworkCount :
              ( /\ Wrote
                /\ requestStyleAnalysisResult(a, r) = "ok"
                /\ requestStyleAnalysis(a, r) )
              => /\ analysisCount' = analysisCount + 1
                 /\ styleMatches'[analysisCount + 1] = ZeroStyleMatch
        /\ \A t \in Issued, c \in ScorePayloads :
              (requestSelector[t] = "analyzeStyle" /\ AcceptedAnalyzeStyle(t, c))
              => analysisCount' = analysisCount
      ]_vars

\* C16: every artwork with a non-zero artist reference refers to a registered
\* artist (an id in 1..artistCount), and no artist profile outside
\* 1..artistCount has been written.
C16_ArtistReferencesResolve ==
    /\ \A i \in 1..artworkCount :
          artworks[i].encryptedArtistId # 0
              => artworks[i].encryptedArtistId \in 1..artistCount
    /\ \A k \in Keys \ (1..artistCount) : artistProfiles[k] = ZeroArtistProfile

\* C17: the artwork count of an artist profile never decreases, and it
\* changes only by a submitArtwork that names the artist.
C17_ArtistCountNeverDecreases ==
    [][ \A k \in Keys :
          /\ artistProfiles'[k].artworkCount >= artistProfiles[k].artworkCount
          /\ artistProfiles'[k].artworkCount # artistProfiles[k].artworkCount
                => \E h \in ImageHashes, s \in StyleVectors : submitArtwork(h, s, k)
      ]_vars

\* C18: every successful call that writes emits exactly one event carrying
\* the id it affected (submitArtwork the new artwork id, requestStyleAnalysis
\* the id of the analysis requested, an accepted analyzeStyle the id of the
\* analysis scored, an accepted checkSignature the id of the analysis
\* verified), and a call that reverts emits none.
C18_OneEventPerWrite ==
    [][ /\ \A s \in SignatureVectors :
              (Wrote /\ registerArtist(s)) => Len(registerArtistEvents(s)) = 1
        /\ \A h \in ImageHashes, s \in StyleVectors, a \in Keys :
              (Wrote /\ submitArtwork(h, s, a))
                  => submitArtworkEvents(h, s, a) = <<Event("ArtworkSubmitted", artworkCount')>>
        /\ \A a \in Keys, r \in Keys :
              /\ (Wrote /\ requestStyleAnalysisResult(a, r) = "ok" /\ requestStyleAnalysis(a, r))
                    => requestStyleAnalysisEvents(a, r)
                          = <<Event("AnalysisRequested", analysisCount + 1)>>
              /\ requestStyleAnalysisResult(a, r) # "ok"
                    => requestStyleAnalysisEvents(a, r) = <<>>
              /\ (Wrote /\ verifyAuthenticityResult(a, r) = "ok" /\ verifyAuthenticity(a, r))
                    => Len(verifyAuthenticityEvents(a, r)) = 1
              /\ (Wrote /\ requestAnalysisProofResult(a) = "ok" /\ requestAnalysisProof(a))
                    => Len(requestAnalysisProofEvents(a)) = 1
        /\ \A t \in RequestIds, d \in Deliveries :
              /\ (d.proofOk /\ AcceptedAnalyzeStyle(t, d.cleartexts))
                    => analyzeStyleEvents(t, d.cleartexts, TRUE)
                          = <<Event("StyleMatchFound", analysisCount')>>
              /\ (d.proofOk /\ AcceptedCheckSignature(t, d.cleartexts))
                    => checkSignatureEvents(t, d.cleartexts, TRUE)
                          = <<Event("VerificationCompleted", requestToAnalysisId[t])>>
              /\ analyzeStyleResult(t, d.cleartexts, d.proofOk) # "ok"
                    => analyzeStyleEvents(t, d.cleartexts, d.proofOk) = <<>>
              /\ checkSignatureResult(t, d.cleartexts, d.proofOk) # "ok"
                    => checkSignatureEvents(t, d.cleartexts, d.proofOk) = <<>>
      ]_vars

\* A step that changes storage or the oracle is not a call that fails, whatever
\* its arguments: an id that exists, 0 or one beyond, and any request id
\* issued or not.
FailedCallWritesNothing ==
    \/ UNCHANGED <<storage, oracle>>
    \/ /\ \A a \in 0..(artworkCount + 1), r \in 0..(artworkCount + 1) :
             requestStyleAnalysisResult(a, r) = "ok" \/ ~requestStyleAnalysis(a, r)
       /\ \A a \in 0..(analysisCount + 1), r \in 0..(artistCount + 1) :
             verifyAuthenticityResult(a, r) = "ok" \/ ~verifyAuthenticity(a, r)
       /\ \A a \in 0..(analysisCount + 1) :
             requestAnalysisProofResult(a) = "ok" \/ ~requestAnalysisProof(a)
       /\ \A t \in 1..(requestCounter + 1), d \in Deliveries :
             /\ analyzeStyleResult(t, d.cleartexts, d.proofOk) = "ok"
                   \/ ~analyzeStyle(t, d.cleartexts, d.proofOk)
             /\ checkSignatureResult(t, d.cleartexts, d.proofOk) = "ok"
                   \/ ~checkSignature(t, d.cleartexts, d.proofOk)
             /\ decryptSimilarityResult(t, d.cleartexts, d.proofOk) = "ok"
                   \/ ~decryptSimilarity(t, d.cleartexts, d.proofOk)

\* C19: a call that fails leaves the three counters, the artwork, artist
\* profile and analysis maps and the request correlation maps as they were.
C19_FailedCallChangesNothing == [][FailedCallWritesNothing]_vars

\* Artworks and an unverified analysis exist, and calls of three kinds fail.
C19_Witness ==
    /\ artworkCount >= 1
    /\ analysisCount >= 1
    /\ requestStyleAnalysisResult(artworkCount + 1, 1) = "Invalid artwork"
    /\ verifyAuthenticityResult(1, artistCount + 1) = "Invalid artist"
    /\ requestAnalysisProofResult(1) = "Not verified"

\* C20: no call decrypts a confidential handle inside the call: submitArtwork
\* attributes the artwork to its artist without a decrypt step.
C20_NoSynchronousDecrypt ==
    [][ \A h \in ImageHashes, s \in StyleVectors, a \in Keys :
          (Wrote /\ submitArtwork(h, s, a))
              => submitArtworkDecrypts(h, s, a) = <<>>
      ]_vars

\* C21: in the artwork detail view decrypted content is shown only after a
\* wallet signature succeeded for that decrypt request, and closing the modal
\* resets it to null before another artwork can be shown: whenever
\* decryptedContent is not null, an artwork is selected and the content is
\* the plaintext of that artwork.
C21_DecryptedContentIsOfShownArtwork ==
    decryptedContent # Null
        => /\ selectedArtwork # Null
           /\ decryptedContent = FHEDecryption(EncryptedData(selectedArtwork))

\* C22: an accepted analyzeStyle callback leaves the verdict of the analysis
\* unresolved whatever the payload; the verdict reads authentic only for an
\* analysis for which a checkSignature callback was accepted.
C22_VerdictOnlyByVerifyCallback ==
    \A a \in 1..analysisCount : getVerificationStatus(a) => VerdictDelivered(a)

\* The correlation entry the callback of request t looks up is still there:
\* the callback's require on it passes.
EntryLive(t) ==
    IF requestSelector[t] = "analyzeStyle"
    THEN requestToArtworkId[t] # 0 /\ requestToAnalysisId[t] # 0
    ELSE requestToAnalysisId[t] # 0

\* C23: consuming a request's entry and the transition it gates are one
\* step: no state has an analysis that was advanced by an accepted callback
\* while the entry of that callback's request is still unconsumed.
C23_AdvancedMeansConsumed ==
    \A t \in Issued :
        (requestSelector[t] \in {"analyzeStyle", "checkSignature"} /\ Consumed(t))
            => ~EntryLive(t)

\* analyzeStyle for request t1 with payload c1, then for t2 with c2, from the
\* current state: the counter and the analyses both callbacks leave.
AfterBothCallbacks(t1, c1, t2, c2) ==
    LET first == analyzeStyleWrites(analysisCount, styleMatches,
                                    requestToAnalysisId[t1], c1)
    IN  analyzeStyleWrites(first.analysisCount, first.styleMatches,
                           requestToAnalysisId[t2], c2)

\* Two outstanding analyzeStyle requests for different comparisons.
OutstandingPair(t1, t2) ==
    /\ t1 # t2
    /\ requestSelector[t1] = "analyzeStyle" /\ requestSelector[t2] = "analyzeStyle"
    /\ EntryLive(t1) /\ EntryLive(t2)
    /\ ~Consumed(t1) /\ ~Consumed(t2)
    /\ <<requestToArtworkId[t1], requestToAnalysisId[t1]>>
          # <<requestToArtworkId[t2], requestToAnalysisId[t2]>>

\* C24: callbacks for different analyses commute: for two outstanding requests
\* issued for different comparisons, delivering their valid callbacks in
\* either order leaves the same analyses (id, score, reference, verdict).
C24_CallbacksCommute ==
    \A t1 \in Issued, t2 \in Issued, c1 \in ScorePayloads, c2 \in ScorePayloads :
        OutstandingPair(t1, t2)
            => AfterBothCallbacks(t1, c1, t2, c2) = AfterBothCallbacks(t2, c2, t1, c1)

\* The StyleMatch an accepted analyzeStyle for request t with payload c would
\* write in the current state.
StyleMatchFor(t, c) ==
    analyzeStyleWrites(analysisCount, styleMatches, requestToAnalysisId[t], c)
        .styleMatches[analysisCount + 1]

\* C25: an accepted callback updates exactly the analysis its request was
\* opened for.  The analysis written by analyzeStyle records the subject and
\* the comparison artwork of its request, so it differs from the one a
\* request for another subject would have produced; checkSignature sets the
\* verdict of the analysisId of its verifyAuthenticity call and changes no
\* other analysis.
C25_CallbackUpdatesItsAnalysis ==
    [][ \A t \in Issued, c \in Cleartexts :
          /\ (requestSelector[t] = "analyzeStyle" /\ AcceptedAnalyzeStyle(t, c))
                => /\ \A a \in 1..analysisCount : styleMatches'[a] = styleMatches[a]
                   /\ \A t2 \in Issued :
                         ( /\ requestSelector[t2] = "analyzeStyle"
                           /\ EntryLive(t2)
                           /\ requestToArtworkId[t2] # requestToArtworkId[t] )
                         => styleMatches'[analysisCount + 1] # StyleMatchFor(t2, c)
          /\ (requestSelector[t] = "checkSignature" /\ AcceptedCheckSignature(t, c))
                => \A a \in Keys \ {requestToAnalysisId[t]} :
                      styleMatches'[a] = styleMatches[a]
      ]_vars

\* C26: verifyAuthenticity fails, opening no request, whenever artistId is 0
\* or greater than artistCount, or analysisId is 0 or greater than
\* analysisCount.
C26_VerifyRejectsUnresolvedIds ==
    [][ \A a \in Keys, r \in Keys :
          (a \notin 1..analysisCount \/ r \notin 1..artistCount)
              => ~( /\ Wrote
                    /\ verifyAuthenticityResult(a, r) = "ok"
                    /\ verifyAuthenticity(a, r) )
      ]_vars

\* C27: submitArtwork with an artist reference in 1..artistCount increments
\* that artist's artworkCount by exactly 1 and changes no other profile; with
\* a reference that is zero or not registered it changes no profile at all.
C27_AttributionFrame ==
    [][ \A h \in ImageHashes, s \in StyleVectors, a \in Keys :
          (Wrote /\ submitArtwork(h, s, a))
              => IF a \in 1..artistCount
                 THEN artistProfiles' =
                         [artistProfiles EXCEPT ![a].artworkCount = @ + 1]
                 ELSE artistProfiles' = artistProfiles
      ]_vars

\* The step leaves the three counters and the score, verdict and workflow
\* state of every analysis as they were.
WorkflowUnchanged ==
    /\ UNCHANGED <<artworkCount, artistCount, analysisCount, styleMatches>>
    /\ \A a \in Keys : (WorkflowState(a))' = WorkflowState(a)

\* The step is a requestAnalysisProof that issued its request, or a
\* decryptSimilarity callback that changed anything.
DisclosureStep ==
    /\ ~UNCHANGED <<storage, oracle>>
    /\ \/ \E a \in 0..(analysisCount + 1) : requestAnalysisProof(a)
       \/ \E t \in 1..(requestCounter + 1), d \in DisclosureDeliveries :
              decryptSimilarity(t, d.cleartexts, d.proofOk)

\* C28: requestAnalysisProof and the disclosure callback decryptSimilarity
\* change no workflow state: the score, verdict and state of every analysis
\* and the three counters are the same before and after either call, for
\* every request id and payload.
C28_DisclosureChangesNoWorkflow ==
    [][ DisclosureStep => WorkflowUnchanged ]_vars

\* A disclosure request was issued for an existing analysis and its callback
\* is accepted.
C28_Witness ==
    \E t \in Issued :
        /\ requestSelector[t] = "decryptSimilarity"
        /\ requestToAnalysisId[t] \in 1..analysisCount
        /\ decryptSimilarityResult(t, <<0>>, TRUE) = "ok"

\* C29: an artwork record is written once and never changed: after
\* submitArtwork stored it, no operation changes any of its fields, the
\* timestamp included.
C29_ArtworkWrittenOnce ==
    [][ \A n \in Keys : artworks[n] # ZeroArtwork => artworks'[n] = artworks[n] ]_vars

\* Two artworks were stored and later a callback created an analysis.
C29_Witness ==
    /\ artworkCount >= 2
    /\ analysisCount >= 1
    /\ \A n \in 1..artworkCount : artworks[n] # ZeroArtwork

\* C30: progress under an oracle that delivers a well-formed, attested
\* callback for every request it issued: every successful requestStyleAnalysis
\* is followed by its analysis being scored and every successful
\* verifyAuthenticity by a verdict.  The analysis of a request can only be
\* advanced by a delivery its callback accepts, so no issued request is left
\* with a request id whose callback rejects every delivery: for every issued
\* request some well-formed attested delivery is accepted.
C30_IssuedRequestCanBeAnswered ==
    \A t \in Issued :
        /\ requestSelector[t] = "analyzeStyle"
              => \E c \in ScorePayloads : analyzeStyleResult(t, c, TRUE) = "ok"
        /\ requestSelector[t] = "checkSignature"
              => \E c \in VerifyPayloads : checkSignatureResult(t, c, TRUE) = "ok"

\* C31: the key index loses no update: for any interleaving of uploadArtwork
\* calls, every artwork whose record was stored by a completed upload has its
\* id in artwork_keys.
C31_NoLostKey ==
    \A c \in CallIds :
        (calls[c].op = "uploadArtwork" /\ calls[c].pc \in {"loadArtworks", "done"})
            => /\ artworkRecords[calls[c].artworkId] # ""
               /\ \E i \in 1..Len(artworkKeys) : artworkKeys[i] = calls[c].artworkId

\* C32: the status of a stored record is decided once: it starts as pending
\* and, once verified or rejected, no verifyArtwork or rejectArtwork call
\* overwrites it with a different status.
C32_StatusDecidedOnce ==
    [][ \A a \in ArtworkIds :
          /\ artworkRecords[a] = "" => artworkRecords'[a] \in {"", "pending"}
          /\ artworkRecords[a] \in {"verified", "rejected"}
                => artworkRecords'[a] = artworkRecords[a]
      ]_vars
====
